---------------------------- MODULE Spec2Model ----------------------------
(***************************************************************************)
(* A model of read_midi.py: the chunk framing (iter_midi, read_chunk), the *)
(* header decoder (parse_header), the variable-length quantity decoder     *)
(* (read_variable_width_quantity) and the track event decoder              *)
(* (iter_events and its sub-decoders).                                     *)
(*                                                                         *)
(* Bytes are the integers 0..255.  An iterator over a byte string is the   *)
(* pair (s, p): the string and the number of bytes already consumed, so    *)
(* next(track) returns s[p+1] and moves to p+1, and raises StopIteration   *)
(* when p = Len(s).  A StopIteration that escapes the body of the          *)
(* generator iter_events is turned into RuntimeError by the interpreter    *)
(* (PEP 479, every Python from 3.7 on): the generator fails.               *)
(***************************************************************************)
EXTENDS Integers, Sequences, FiniteSets, TLC

VARIABLES
    track_data,   \* iter_events: the track payload handed to it
    pos,          \* iter_events: bytes the iterator `track` has delivered
    events,       \* iter_events: the events yielded so far
    spans,        \* history: for each yielded event, the cursor before/after
    status,       \* iter_events: "running", "done" (exhausted), "error"
    midi,         \* iter_midi: the bytes of the file
    fpos,         \* iter_midi: the file position
    chunks,       \* iter_midi: the (tag, payload) pairs yielded so far
    mstatus,      \* iter_midi: "running", "done", "error"
    chunk,        \* parse_header: its argument
    header,       \* parse_header: its result, <<>> before the call
    hstatus,      \* parse_header: "ready", "returned", "error"
    vlq_n,        \* the integer whose encoding is decoded
    vlq_bytes,    \* read_variable_width_quantity: elem followed by the iterator
    vlq_out,      \* read_variable_width_quantity: its result
    vstatus       \* read_variable_width_quantity: "ready", "returned", "error"

vars == <<track_data, pos, events, spans, status, midi, fpos, chunks, mstatus,
          chunk, header, hstatus, vlq_n, vlq_bytes, vlq_out, vstatus>>

evars == <<track_data, pos, events, spans, status>>
mvars == <<midi, fpos, chunks, mstatus>>
hvars == <<chunk, header, hstatus>>
vvars == <<vlq_n, vlq_bytes, vlq_out, vstatus>>

-----------------------------------------------------------------------------
(* Bounds of the model *)

\* longest track payload over CoreBytes
MaxLen == 6
\* most data bytes after a (delta-time, status) pair in the status sweep
MaxTail == 2
\* longest run of bytes with the high bit set in a track payload: a quantity
\* of MaxRun + 1 bytes is the longest one decoded (numbers stay below 2^31)
MaxRun == 2

-----------------------------------------------------------------------------
(* Helpers on byte strings *)

\* the byte strings over S of length n
Strings(S, n) == [1..n -> S]

Min(a, b) == IF a < b THEN a ELSE b

-----------------------------------------------------------------------------
(* take, check_mask *)

\* next(track) can deliver a byte
HasNext(s, p) == p < Len(s)

\* take with a fault: the bytes that are left are returned when fewer than n
\* remain, as a read of a file does
take_Short(n, s, p) ==
    [ok |-> TRUE, data |-> SubSeq(s, p + 1, Min(p + n, Len(s))),
     pos |-> Min(p + n, Len(s))]

\* take(n, iterator): n calls of next; StopIteration when fewer than n remain
take(n, s, p) ==
    IF p + n <= Len(s)
    THEN [ok |-> TRUE, data |-> SubSeq(s, p + 1, p + n), pos |-> p + n]
    ELSE [ok |-> FALSE, data |-> <<>>, pos |-> Len(s)]

\* byte & 0xF0 == mask
check_mask(byte, mask) == (byte \div 16) * 16 = mask

-----------------------------------------------------------------------------
(* read_variable_width_quantity *)

\* the binary digits of n, most significant first, <<>> for 0
RECURSIVE Digits2(_)
Digits2(n) == IF n = 0 THEN <<>> ELSE Append(Digits2(n \div 2), n % 2)

\* "{0:07b}".format(elem): the binary digits padded with zeros on the left to
\* a width of at least 7 (a wider number keeps all its digits)
Format07b(elem) ==
    LET d == Digits2(elem)
    IN  IF Len(d) >= 7 THEN d ELSE [i \in 1..(7 - Len(d)) |-> 0] \o d

\* "".join(map(..., elems))
RECURSIVE Join(_)
Join(strs) == IF strs = <<>> THEN <<>> ELSE Head(strs) \o Join(Tail(strs))

\* the number written by the first n digits of bits
RECURSIVE ParsePrefix2(_, _)
ParsePrefix2(bits, n) ==
    IF n = 0 THEN 0 ELSE 2 * ParsePrefix2(bits, n - 1) + bits[n]

\* int(text, 2)
ParseBase2(bits) == ParsePrefix2(bits, Len(bits))

\* the value returned for the bytes collected in elems
QuantityOf(elems) == ParseBase2(Join([i \in 1..Len(elems) |-> Format07b(elems[i])]))

\* the loop: elem is appended; a byte with the high bit clear ends it
RECURSIVE vlq_loop(_, _, _, _)
vlq_loop(elems, elem, s, p) ==
    LET es == Append(elems, elem)
    IN  IF elem < 128
        THEN [ok |-> TRUE, value |-> QuantityOf(es), pos |-> p]
        ELSE IF HasNext(s, p)
             THEN vlq_loop(es, s[p + 1], s, p + 1)
             ELSE [ok |-> FALSE, value |-> 0, pos |-> Len(s)]

\* read_variable_width_quantity(elem, track), track being (s, p)
read_variable_width_quantity(elem, s, p) == vlq_loop(<<>>, elem, s, p)

-----------------------------------------------------------------------------
(* Events.  Every event is a record of one shape:                          *)
(*   kind  "sysex" | "meta" | "channel_mode" | "channel_voice" |           *)
(*         "unknown_byte"                                                  *)
(*   delta the delta-time                                                  *)
(*   name, channel   of a channel_voice event ("" and 0 otherwise)         *)
(*   meta_type       of a meta event (-1 otherwise)                        *)
(*   data  the bytes: the payload of sysex and meta, the two raw bytes of  *)
(*         channel_mode, the data bytes of channel_voice, the raw byte of  *)
(*         unknown_byte                                                    *)

Event(kind, delta, name, channel, meta_type, data) ==
    [kind |-> kind, delta |-> delta, name |-> name, channel |-> channel,
     meta_type |-> meta_type, data |-> data]

Failed(s) == [ok |-> FALSE, name |-> "", channel |-> 0, meta_type |-> -1,
              data |-> <<>>, pos |-> Len(s)]

Parsed(name, channel, meta_type, data, p) ==
    [ok |-> TRUE, name |-> name, channel |-> channel, meta_type |-> meta_type,
     data |-> data, pos |-> p]

\* parse_sysex(track)
parse_sysex(s, p) ==
    IF ~HasNext(s, p) THEN Failed(s)
    ELSE LET length == read_variable_width_quantity(s[p + 1], s, p + 1)
         IN  IF ~length.ok THEN Failed(s)
             ELSE LET t == take(length.value, s, length.pos)
                  IN  IF ~t.ok THEN Failed(s)
                      ELSE Parsed("", 0, -1, t.data, t.pos)

\* the end of track test with a fault: no type is special-cased
IsEndOfTrack_Never(meta_type) == FALSE

\* meta_type == 0x2F: the payload is b"" and no payload byte is taken
IsEndOfTrack(meta_type) == meta_type = 47

\* parse_meta(track)
parse_meta(s, p) ==
    IF ~HasNext(s, p) THEN Failed(s)
    ELSE LET meta_type == s[p + 1]
         IN  IF ~HasNext(s, p + 1) THEN Failed(s)
             ELSE LET length == read_variable_width_quantity(s[p + 2], s, p + 2)
                  IN  IF ~length.ok THEN Failed(s)
                      ELSE IF IsEndOfTrack(meta_type)
                           THEN Parsed("", 0, meta_type, <<>>, length.pos)
                           ELSE LET t == take(length.value, s, length.pos)
                                IN  IF ~t.ok THEN Failed(s)
                                    ELSE Parsed("", 0, meta_type, t.data, t.pos)

\* parse_channel_mode(p_byte, track)
parse_channel_mode(p_byte, s, p) ==
    IF ~HasNext(s, p) THEN Failed(s)
    ELSE Parsed("", 0, -1, <<p_byte, s[p + 1]>>, p + 1)

\* name_mapping, in the order of the dictionary
name_mapping ==
    << [mask |-> 128, name |-> "note_off"],
       [mask |-> 144, name |-> "note_on"],
       [mask |-> 160, name |-> "polyphonic_key_pressure"],
       [mask |-> 176, name |-> "controller_change"],
       [mask |-> 192, name |-> "program_change"],
       [mask |-> 208, name |-> "channel_key_pressure"],
       [mask |-> 224, name |-> "pitch_bend"] >>

\* the for loop over name_mapping: the first mask that matches
voice_name(p_byte) ==
    LET hits == {i \in 1..Len(name_mapping) : check_mask(p_byte, name_mapping[i].mask)}
    IN  name_mapping[CHOOSE i \in hits : \A j \in hits : i <= j].name

\* channel = (p_byte & 0xF) + 1
voice_channel(p_byte) == (p_byte % 16) + 1

\* the one-data-byte test with a fault: channel_key_pressure is left out
OneDataByte_ProgramChangeOnly(p_byte) == check_mask(p_byte, 192)

\* check_mask(p_byte, 0xC0) or check_mask(p_byte, 0xD0): one data byte only
OneDataByte(p_byte) == check_mask(p_byte, 192) \/ check_mask(p_byte, 208)

\* parse_channel_voice(p_byte, byte, track)
parse_channel_voice(p_byte, byte, s, p) ==
    IF OneDataByte(p_byte)
    THEN Parsed(voice_name(p_byte), voice_channel(p_byte), -1, <<byte>>, p)
    ELSE IF ~HasNext(s, p) THEN Failed(s)
         ELSE Parsed(voice_name(p_byte), voice_channel(p_byte), -1,
                     <<byte, s[p + 1]>>, p + 1)

\* the channel mode test with a fault: the range starts one too high
IsChannelModeController_From79(n_byte) == n_byte > 120 /\ n_byte < 128

\* n_byte in range(0x78, 0x80)
IsChannelModeController(n_byte) == n_byte >= 120 /\ n_byte < 128

\* any(map(lambda x: check_mask(byte, x), (0x80, 0x90, 0xA0, 0xC0, 0xD0, 0xE0)))
IsVoiceStatus(byte) ==
    \E x \in {128, 144, 160, 192, 208, 224} : check_mask(byte, x)

\* the unknown_byte branch with a fault: the byte after it is skipped
unknown_byte_SkipsNext(byte, s, p) == Parsed("", 0, -1, <<byte>>, Min(p + 1, Len(s)))

\* the unknown_byte branch: the raw byte, the cursor left where it is
unknown_byte(byte, s, p) == Parsed("", 0, -1, <<byte>>, p)

\* the dispatch on the status byte `byte`, the cursor p being after it:
\* the kind of the event with what its sub-decoder returned
dispatch(byte, s, p) ==
    IF byte \in {240, 247}
    THEN [kind |-> "sysex", r |-> parse_sysex(s, p)]
    ELSE IF byte = 255
    THEN [kind |-> "meta", r |-> parse_meta(s, p)]
    ELSE IF check_mask(byte, 176)
    THEN IF ~HasNext(s, p) THEN [kind |-> "channel_voice", r |-> Failed(s)]
         ELSE LET n_byte == s[p + 1]
              IN  IF IsChannelModeController(n_byte)
                  THEN [kind |-> "channel_mode",
                        r |-> parse_channel_mode(n_byte, s, p + 1)]
                  ELSE [kind |-> "channel_voice",
                        r |-> parse_channel_voice(byte, n_byte, s, p + 1)]
    ELSE IF IsVoiceStatus(byte)
    THEN IF ~HasNext(s, p) THEN [kind |-> "channel_voice", r |-> Failed(s)]
         ELSE [kind |-> "channel_voice",
               r |-> parse_channel_voice(byte, s[p + 1], s, p + 1)]
    ELSE [kind |-> "unknown_byte", r |-> unknown_byte(byte, s, p)]

\* one pass of the body of `for byte in track`, entered with p < Len(s):
\* ok with the event yielded and the cursor after it, or not ok when a
\* next(track) inside the body raised StopIteration
loop_body(s, p) ==
    LET delta_time == read_variable_width_quantity(s[p + 1], s, p + 1)
    IN  IF ~delta_time.ok \/ ~HasNext(s, delta_time.pos)
        THEN [ok |-> FALSE, pos |-> Len(s)]
        ELSE LET byte == s[delta_time.pos + 1]
                 d == dispatch(byte, s, delta_time.pos + 1)
             IN  IF ~d.r.ok THEN [ok |-> FALSE, pos |-> Len(s)]
                 ELSE [ok |-> TRUE, pos |-> d.r.pos,
                       event |-> Event(d.kind, delta_time.value, d.r.name,
                                       d.r.channel, d.r.meta_type, d.r.data)]

\* the escape of StopIteration with a fault: it ends the generator quietly,
\* as the for statement's own StopIteration does
StopIterationInBody_EndsQuietly == "done"

\* what the escape of StopIteration from the generator body does to it
StopIterationInBody == "error"

\* iter_events(track_data) consumed to its end from cursor p, evs being the
\* events yielded before: the events yielded in all, and how the generator ended
RECURSIVE run_events(_, _, _)
run_events(s, p, evs) ==
    IF ~HasNext(s, p) THEN [status |-> "done", events |-> evs]
    ELSE LET r == loop_body(s, p)
         IN  IF r.ok THEN run_events(s, r.pos, Append(evs, r.event))
             ELSE [status |-> StopIterationInBody, events |-> evs]

iter_events(s) == run_events(s, 0, <<>>)

-----------------------------------------------------------------------------
(* iter_events as a state machine: one action per resumption *)

\* bytes of the general payloads
CoreBytes == {0, 1, 47, 129, 255}
\* bytes after the status byte in the status sweep
DataBytes == {0, 1, 7, 60, 64, 120, 123}

\* no run of more than MaxRun bytes with the high bit set
ShortRuns(s) ==
    \A i \in 1..Len(s) :
        i + MaxRun <= Len(s) => {j \in i..(i + MaxRun) : s[j] < 128} # {}

\* a payload: any string over CoreBytes, or a delta-time of 0, any status
\* byte and a string over DataBytes (the status sweep)
IsTrackInput(s) ==
    \/ \E n \in 0..MaxLen : s \in Strings(CoreBytes, n) /\ ShortRuns(s)
    \/ \E st \in 0..255, n \in 0..MaxTail :
            \E t \in Strings(DataBytes, n) : s = <<0, st>> \o t

InitOthersE ==
    /\ midi = <<>> /\ fpos = 0 /\ chunks = <<>> /\ mstatus = "done"
    /\ chunk = <<>> /\ header = <<>> /\ hstatus = "returned"
    /\ vlq_n = 0 /\ vlq_bytes = <<0>> /\ vlq_out = 0 /\ vstatus = "returned"

InitEvents ==
    /\ IsTrackInput(track_data)
    /\ pos = 0
    /\ events = <<>>
    /\ spans = <<>>
    /\ status = "running"
    /\ InitOthersE

\* the body runs to its yield
EventYield ==
    /\ status = "running"
    /\ HasNext(track_data, pos)
    /\ LET r == loop_body(track_data, pos)
       IN  /\ r.ok
           /\ events' = Append(events, r.event)
           /\ spans' = Append(spans, [from |-> pos, to |-> r.pos])
           /\ pos' = r.pos
    /\ UNCHANGED <<track_data, status>>
    /\ UNCHANGED <<mvars, hvars, vvars>>

\* a next(track) inside the body finds the payload exhausted
EventError ==
    /\ status = "running"
    /\ HasNext(track_data, pos)
    /\ LET r == loop_body(track_data, pos)
       IN  /\ ~r.ok
           /\ pos' = r.pos
    /\ status' = StopIterationInBody
    /\ UNCHANGED <<track_data, events, spans>>
    /\ UNCHANGED <<mvars, hvars, vvars>>

\* the for statement finds the payload exhausted: the generator returns
EventsExhausted ==
    /\ status = "running"
    /\ ~HasNext(track_data, pos)
    /\ status' = "done"
    /\ UNCHANGED <<track_data, pos, events, spans>>
    /\ UNCHANGED <<mvars, hvars, vvars>>

NextEvents == EventYield \/ EventError \/ EventsExhausted

SpecEvents == InitEvents /\ [][NextEvents]_vars

\* a resumption seen from the consumer: the generator was suspended, and
\* the cursor or the status changed.  Every step of NextEvents is one, and
\* one is possible exactly when status = "running"
Resumption ==
    /\ status = "running"
    /\ status' \in {"running", "done", "error"}
    /\ pos' \in pos..Len(track_data)
    /\ <<pos', status'>> # <<pos, status>>

\* the consumer's for statement resumes the generator until it has ended
FairSpecEvents == SpecEvents /\ WF_<<pos, status>>(Resumption)

-----------------------------------------------------------------------------
(* iter_midi and read_chunk *)

\* midi.read(n): the next n bytes, or as many as are left
read(n, s, p) == SubSeq(s, p + 1, Min(p + n, Len(s)))

\* unpack(">I", b): struct.error unless b holds exactly 4 bytes
unpack_I(b) ==
    IF Len(b) = 4
    THEN [ok |-> TRUE,
          value |-> ((b[1] * 256 + b[2]) * 256 + b[3]) * 256 + b[4]]
    ELSE [ok |-> FALSE, value |-> 0]

\* read_chunk(midi), the file position being p
read_chunk(s, p) ==
    LET raw == read(4, s, p)
        length == unpack_I(raw)
    IN  IF ~length.ok
        THEN [ok |-> FALSE, length |-> 0, data |-> <<>>, pos |-> p + Len(raw)]
        ELSE LET data == read(length.value, s, p + 4)
             IN  [ok |-> TRUE, length |-> length.value, data |-> data,
                  pos |-> p + 4 + Len(data)]

\* the end test with a fault: a tag of fewer than 4 bytes ends the loop
TagEndsStream_ShortTag(chunk_type) == Len(chunk_type) < 4

\* `if not chunk_type: break`
TagEndsStream(chunk_type) == Len(chunk_type) = 0

\* bytes of the files
FileBytes == {0, 1}
\* longest file
MaxFile == 16

InitOthersM ==
    /\ track_data = <<>> /\ pos = 0 /\ events = <<>> /\ spans = <<>>
    /\ status = "done"
    /\ chunk = <<>> /\ header = <<>> /\ hstatus = "returned"
    /\ vlq_n = 0 /\ vlq_bytes = <<0>> /\ vlq_out = 0 /\ vstatus = "returned"

InitMidi ==
    /\ \E n \in 0..MaxFile : midi \in Strings(FileBytes, n)
    /\ fpos = 0
    /\ chunks = <<>>
    /\ mstatus = "running"
    /\ InitOthersM

\* a tag was read and read_chunk returned: the pair is yielded.  length and
\* from record the declared length and the chunk boundary
ChunkYield ==
    /\ mstatus = "running"
    /\ LET chunk_type == read(4, midi, fpos)
           c == read_chunk(midi, fpos + Len(chunk_type))
       IN  /\ ~TagEndsStream(chunk_type)
           /\ c.ok
           /\ chunks' = Append(chunks, [tag |-> chunk_type, data |-> c.data,
                                        length |-> c.length, from |-> fpos,
                                        to |-> c.pos])
           /\ fpos' = c.pos
    /\ UNCHANGED <<midi, mstatus>>
    /\ UNCHANGED <<evars, hvars, vvars>>

\* a tag was read and unpack raised struct.error in read_chunk
ChunkError ==
    /\ mstatus = "running"
    /\ LET chunk_type == read(4, midi, fpos)
           c == read_chunk(midi, fpos + Len(chunk_type))
       IN  /\ ~TagEndsStream(chunk_type)
           /\ ~c.ok
           /\ fpos' = c.pos
    /\ mstatus' = "error"
    /\ UNCHANGED <<midi, chunks>>
    /\ UNCHANGED <<evars, hvars, vvars>>

\* the tag read ends the loop
ChunkEnd ==
    /\ mstatus = "running"
    /\ LET chunk_type == read(4, midi, fpos)
       IN  /\ TagEndsStream(chunk_type)
           /\ fpos' = fpos + Len(chunk_type)
    /\ mstatus' = "done"
    /\ UNCHANGED <<midi, chunks>>
    /\ UNCHANGED <<evars, hvars, vvars>>

NextMidi == ChunkYield \/ ChunkError \/ ChunkEnd

SpecMidi == InitMidi /\ [][NextMidi]_vars

-----------------------------------------------------------------------------
(* parse_header *)

\* a 16-bit field with a fault: little-endian
unpack_H_LittleEndian(hi, lo) == lo * 256 + hi

\* one big-endian unsigned 16-bit field of unpack(">HHH", ...)
unpack_H(hi, lo) == hi * 256 + lo

\* unpack(">HHH", chunk): struct.error unless chunk holds exactly 6 bytes
parse_header(c) ==
    IF Len(c) = 6
    THEN [ok |-> TRUE,
          items |-> <<unpack_H(c[1], c[2]), unpack_H(c[3], c[4]),
                      unpack_H(c[5], c[6])>>]
    ELSE [ok |-> FALSE, items |-> <<>>]

\* bytes of the header payloads
HeaderBytes == {0, 1, 2, 96, 255}
\* longest header payload
MaxHeader == 7

InitOthersH ==
    /\ track_data = <<>> /\ pos = 0 /\ events = <<>> /\ spans = <<>>
    /\ status = "done"
    /\ midi = <<>> /\ fpos = 0 /\ chunks = <<>> /\ mstatus = "done"
    /\ vlq_n = 0 /\ vlq_bytes = <<0>> /\ vlq_out = 0 /\ vstatus = "returned"

InitHeader ==
    /\ \E n \in 0..MaxHeader : chunk \in Strings(HeaderBytes, n)
    /\ header = <<>>
    /\ hstatus = "ready"
    /\ InitOthersH

HeaderReturn ==
    /\ hstatus = "ready"
    /\ parse_header(chunk).ok
    /\ header' = parse_header(chunk).items
    /\ hstatus' = "returned"
    /\ UNCHANGED chunk
    /\ UNCHANGED <<evars, mvars, vvars>>

HeaderError ==
    /\ hstatus = "ready"
    /\ ~parse_header(chunk).ok
    /\ hstatus' = "error"
    /\ UNCHANGED <<chunk, header>>
    /\ UNCHANGED <<evars, mvars, vvars>>

NextHeader == HeaderReturn \/ HeaderError

SpecHeader == InitHeader /\ [][NextHeader]_vars

-----------------------------------------------------------------------------
(* read_variable_width_quantity on the encodings of integers *)

\* the 7-bit groups of n, most significant first
RECURSIVE Groups7(_)
Groups7(n) == IF n < 128 THEN <<n>> ELSE Append(Groups7(n \div 128), n % 128)

\* the canonical variable-length encoding of n of the MIDI file format: the
\* groups of n, the high bit set on every byte but the last
EncodeVLQ(n) ==
    LET g == Groups7(n)
    IN  [i \in 1..Len(g) |-> IF i < Len(g) THEN g[i] + 128 ELSE g[i]]

\* every integer up to MaxSmall is decoded
MaxSmall == 300

\* the boundary values of the encoding
VlqBoundaries == {0, 127, 128, 16383, 16384, 2097151, 268435455}

VlqValues == (0..MaxSmall) \cup VlqBoundaries

InitOthersV ==
    /\ track_data = <<>> /\ pos = 0 /\ events = <<>> /\ spans = <<>>
    /\ status = "done"
    /\ midi = <<>> /\ fpos = 0 /\ chunks = <<>> /\ mstatus = "done"
    /\ chunk = <<>> /\ header = <<>> /\ hstatus = "returned"

\* the encoding of an integer, whole or cut short
InitVlq ==
    /\ vlq_n \in VlqValues
    /\ \E k \in 1..Len(EncodeVLQ(vlq_n)) : vlq_bytes = SubSeq(EncodeVLQ(vlq_n), 1, k)
    /\ vlq_out = 0
    /\ vstatus = "ready"
    /\ InitOthersV

\* elem is the first byte, the iterator delivers the rest
VlqReturn ==
    /\ vstatus = "ready"
    /\ LET r == read_variable_width_quantity(vlq_bytes[1], vlq_bytes, 1)
       IN  /\ r.ok
           /\ vlq_out' = r.value
    /\ vstatus' = "returned"
    /\ UNCHANGED <<vlq_n, vlq_bytes>>
    /\ UNCHANGED <<evars, mvars, hvars>>

\* next(track) raised StopIteration
VlqError ==
    /\ vstatus = "ready"
    /\ ~read_variable_width_quantity(vlq_bytes[1], vlq_bytes, 1).ok
    /\ vstatus' = "error"
    /\ UNCHANGED <<vlq_n, vlq_bytes, vlq_out>>
    /\ UNCHANGED <<evars, mvars, hvars>>

NextVlq == VlqReturn \/ VlqError

SpecVlq == InitVlq /\ [][NextVlq]_vars

-----------------------------------------------------------------------------
(* Properties of read_variable_width_quantity *)

\* C1: decoding the canonical encoding of n returns n: the value is made of
\* the low 7 bits of each byte only, the continuation bits add nothing
C1_RoundTrip ==
    (vstatus = "returned" /\ vlq_bytes = EncodeVLQ(vlq_n)) => vlq_out = vlq_n

-----------------------------------------------------------------------------
(* Properties of iter_midi *)

\* bytes of the file not read yet
Remaining == Len(midi) - fpos

\* C2: every yielded pair holds exactly as many payload bytes as the length
\* field declares, and the file position moved by 4 + 4 + that length
C2_PayloadMatchesLength ==
    \A i \in 1..Len(chunks) :
        /\ Len(chunks[i].data) = chunks[i].length
        /\ chunks[i].to - chunks[i].from = 4 + 4 + chunks[i].length

\* C3: iter_midi ends cleanly exactly when the tag read at a chunk boundary
\* returns no byte; 1 to 3 bytes for the tag, or a tag and fewer than 4 bytes
\* for the length, make it fail, no pair being yielded.  The empty file yields
\* nothing and ends cleanly, a file of 2 bytes fails
C3_CleanEndOnlyOnEmptyTag ==
    /\ [][mstatus = "running" =>
            /\ (mstatus' = "done") <=> (Remaining = 0)
            /\ (Remaining \in 1..7) => (mstatus' = "error" /\ chunks' = chunks)
            /\ (mstatus' # "running") => chunks' = chunks]_vars
    /\ []((mstatus # "running" /\ Len(midi) = 0) => (mstatus = "done" /\ chunks = <<>>))
    /\ []((mstatus # "running" /\ Len(midi) = 2) => (mstatus = "error" /\ chunks = <<>>))

\* a chunk was yielded, and then 1 to 3 bytes were left for the next tag
C3_Witness ==
    /\ mstatus = "error"
    /\ Len(chunks) = 1
    /\ Len(midi) - chunks[1].to \in 1..3

-----------------------------------------------------------------------------
(* Properties of parse_header *)

\* C7: 6 bytes give the three big-endian 16-bit fields as they are, fewer
\* than 6 bytes give an error and no fields
C7_HeaderFields ==
    /\ (hstatus # "ready" /\ Len(chunk) = 6) =>
            /\ hstatus = "returned"
            /\ header = <<chunk[1] * 256 + chunk[2], chunk[3] * 256 + chunk[4],
                          chunk[5] * 256 + chunk[6]>>
            /\ \A i \in 1..3 : header[i] \in 0..65535
    /\ (hstatus # "ready" /\ Len(chunk) < 6) => (hstatus = "error" /\ header = <<>>)
    /\ (hstatus # "ready" /\ chunk = <<0, 1, 0, 2, 0, 96>>) => header = <<1, 2, 96>>

\* a header with fields above the range of the format was returned
C7_Witness ==
    /\ hstatus = "returned"
    /\ chunk = <<255, 255, 0, 2, 0, 96>>
    /\ header = <<65535, 2, 96>>

-----------------------------------------------------------------------------
(* Properties of iter_events.  They are stated on the bytes of the payload: *)
(* event i was decoded from the bytes spans[i].from + 1 .. spans[i].to.     *)

\* the number of bytes of the quantity that starts after cursor p: the bytes
\* up to and including the first one with the high bit clear
QuantityLen(s, p) ==
    CHOOSE n \in 1..(Len(s) - p) :
        s[p + n] < 128 /\ \A m \in 1..(n - 1) : s[p + m] >= 128

\* the index of the status byte of yielded event i
StatusIndex(i) == spans[i].from + QuantityLen(track_data, spans[i].from) + 1

\* the name the MIDI format gives a channel voice status
NameOfNibble(n) ==
    CASE n = 8 -> "note_off"
      [] n = 9 -> "note_on"
      [] n = 10 -> "polyphonic_key_pressure"
      [] n = 11 -> "controller_change"
      [] n = 12 -> "program_change"
      [] n = 13 -> "channel_key_pressure"
      [] n = 14 -> "pitch_bend"

\* C4: a status byte 0xB0..0xBF with data byte d and one more byte e gives
\* channel_mode (d, e) when 0x78 <= d <= 0x7F and otherwise channel_voice
\* controller_change on channel (status & 0x0F) + 1 with data (d, e); two
\* bytes after the status byte are consumed either way
C4_ControllerOrChannelMode ==
    /\ \A i \in 1..Len(events) :
        LET k == StatusIndex(i)
            st == track_data[k]
        IN  (st >= 176 /\ st <= 191) =>
                LET d == track_data[k + 1]
                    e == track_data[k + 2]
                IN  /\ spans[i].to = k + 2
                    /\ events[i].data = <<d, e>>
                    /\ IF d >= 120 /\ d <= 127
                       THEN events[i].kind = "channel_mode"
                       ELSE /\ events[i].kind = "channel_voice"
                            /\ events[i].name = "controller_change"
                            /\ events[i].channel = (st % 16) + 1
    /\ (track_data = <<0, 176, 7, 64>> /\ status = "done") =>
            events = <<Event("channel_voice", 0, "controller_change", 1, -1, <<7, 64>>)>>
    /\ (track_data = <<0, 176, 123, 0>> /\ status = "done") =>
            events = <<Event("channel_mode", 0, "", 0, -1, <<123, 0>>)>>

\* a channel mode message with the lowest reserved controller number, 0x78,
\* was yielded for a status byte of channel 16
C4_Witness ==
    /\ track_data = <<0, 191, 120, 7>>
    /\ Len(events) = 1
    /\ events[1].kind = "channel_mode"
    /\ pos = 4

\* C5: a status byte with high nibble 8, 9, A, C, D or E gives channel_voice
\* with the name of that nibble and channel (status & 0x0F) + 1, in 1..16,
\* with one data byte for program_change and channel_key_pressure and two
\* otherwise, that many bytes being consumed after the status byte
C5_ChannelVoice ==
    /\ \A i \in 1..Len(events) :
        LET k == StatusIndex(i)
            st == track_data[k]
            n == IF st \div 16 \in {12, 13} THEN 1 ELSE 2
        IN  (st \div 16 \in {8, 9, 10, 12, 13, 14}) =>
                /\ events[i].kind = "channel_voice"
                /\ events[i].name = NameOfNibble(st \div 16)
                /\ events[i].channel = (st % 16) + 1
                /\ events[i].channel \in 1..16
                /\ events[i].data = SubSeq(track_data, k + 1, k + n)
                /\ spans[i].to = k + n
    /\ (track_data = <<0, 144, 60, 64>> /\ status = "done") =>
            events = <<Event("channel_voice", 0, "note_on", 1, -1, <<60, 64>>)>>

\* a channel_key_pressure on channel 16 took one data byte and the byte after
\* it was left for the next event
C5_Witness ==
    /\ track_data = <<0, 223, 64, 7>>
    /\ Len(events) = 1
    /\ events[1].name = "channel_key_pressure" /\ events[1].channel = 16
    /\ spans[1].to = 3

\* C6: a meta event of type 0x2F has an empty payload whatever length is
\* encoded after the type, the cursor being after the length; yielding it
\* does not end the sequence: with bytes left the next resumption decodes
\* them (an event or an error, not the end), and the sequence ends only with
\* the payload exhausted.  00 FF 2F 00 gives that one event and the end
C6_EndOfTrackDoesNotStop ==
    /\ [](\A i \in 1..Len(events) :
            LET k == StatusIndex(i)
            IN  (track_data[k] = 255 /\ track_data[k + 1] = 47) =>
                    /\ events[i].kind = "meta"
                    /\ events[i].meta_type = 47
                    /\ events[i].data = <<>>
                    /\ spans[i].to = k + 1 + QuantityLen(track_data, k + 1))
    /\ [][(/\ status = "running"
           /\ events # <<>>
           /\ events[Len(events)].kind = "meta"
           /\ events[Len(events)].meta_type = 47
           /\ pos < Len(track_data))
          => (status' # "done" /\ pos' > pos)]_vars
    /\ [](status = "done" => pos = Len(track_data))
    /\ []((track_data = <<0, 255, 47, 0>> /\ status = "done") =>
            (events = <<Event("meta", 0, "", 0, 47, <<>>)>> /\ pos = 4))

\* an end of track with a length of 1 encoded was yielded with no payload,
\* and the two bytes after it were decoded as one more event
C6_Witness ==
    /\ track_data = <<0, 255, 47, 1, 0, 1>>
    /\ status = "done"
    /\ Len(events) = 2
    /\ events[1] = Event("meta", 0, "", 0, 47, <<>>)
    /\ events[2].kind = "unknown_byte"

\* the payload cut to its first t bytes
CutTo(t) == SubSeq(track_data, 1, t)

IsUnknownStatus(st) ==
    \/ st >= 0 /\ st <= 127
    \/ st >= 241 /\ st <= 246
    \/ st >= 248 /\ st <= 254

\* the payload from cursor p on
From(p) == SubSeq(track_data, p + 1, Len(track_data))

\* C9: a status byte in 0x00-0x7F, 0xF1-0xF6 or 0xF8-0xFE gives unknown_byte
\* with that byte and the delta-time and consumes nothing more, the next
\* event starting at the byte after it; and no status is kept from one event
\* to the next: every event is the one decoded from its own bytes onward
C9_UnknownByteAndNoRunningStatus ==
    /\ \A i \in 1..Len(events) :
        LET k == StatusIndex(i)
            st == track_data[k]
        IN  IsUnknownStatus(st) =>
                /\ events[i].kind = "unknown_byte"
                /\ events[i].data = <<st>>
                /\ events[i].delta =
                       read_variable_width_quantity(track_data[spans[i].from + 1],
                           track_data, spans[i].from + 1).value
                /\ spans[i].to = k
                /\ (i < Len(events)) => spans[i + 1].from = k
    /\ \A i \in 1..Len(events) :
        /\ loop_body(From(spans[i].from), 0).ok
        /\ loop_body(From(spans[i].from), 0).event = events[i]

\* a data byte where a status byte is due, after a note_off: it is yielded as
\* unknown_byte and the note_off status is not reused
C9_Witness ==
    /\ track_data = <<0, 129, 0, 1, 0, 47>>
    /\ status = "done"
    /\ Len(events) = 2
    /\ events[1].name = "note_off"
    /\ events[2] = Event("unknown_byte", 0, "", 0, -1, <<47>>)

\* C10: iter_events consumed to the end finishes, by exhaustion or by an
\* error, after finitely many events; the cursor never moves back, an event
\* takes at least two bytes, and at exhaustion the cursor is at the end of
\* the payload, the events' byte ranges following one another from the first
\* byte to the last
C10_TerminatesAndConsumesAll ==
    /\ <>(status \in {"done", "error"})
    /\ [][/\ pos' >= pos
          /\ Len(events') > Len(events) => pos' >= pos + 2]_vars
    /\ [](2 * Len(events) <= Len(track_data))
    /\ [](\A i \in 1..Len(spans) :
            /\ spans[i].from = (IF i = 1 THEN 0 ELSE spans[i - 1].to)
            /\ spans[i].to >= spans[i].from + 2)
    /\ [](status = "done" =>
            /\ pos = Len(track_data)
            /\ Len(spans) = Len(events)
            /\ (IF spans = <<>> THEN 0 ELSE spans[Len(spans)].to) = Len(track_data))

\* three events of two bytes each took the six bytes of a payload
C10_Witness ==
    /\ Len(track_data) = 6
    /\ status = "done"
    /\ Len(events) = 3
    /\ pos = 6

=============================================================================
